---------------------------- MODULE Spec2Model ----------------------------
(***************************************************************************)
(* A model of DmsMsgRcg's sliding-window feature extraction                *)
(* (misc/imgreader.py, class ImgReader) and of the YOLO-style grid decode, *)
(* crop and loss (textdect/yolonet.py, class YoloNet).                     *)
(*                                                                         *)
(* A grey-scale image (a 2-D numpy array) is a record [h, w, px] with px a *)
(* function over <<row, col>>, 0-based like the source's indices.          *)
(***************************************************************************)
EXTENDS Integers, Sequences, FiniteSets, TLC

VARIABLES
    pc,              \* position of the running call: "call", "loop", "done", "raised"
    feature_height,  \* ImgReader.feature_height
    feature_width,   \* ImgReader.feature_width
    img_arr,         \* get_image_array_features: argument img_arr
    stride,          \* argument stride
    padding,         \* argument padding
    coordinates,     \* get_image_array_features: returned coordinates
    features,        \* get_image_array_features: returned features
    frame,           \* get_image_array_features: its locals when it returns
    listing,         \* get_features_all_images: os.listdir(img_dir) with each entry's content
    ext_filter,      \* get_features_all_images: argument ext_filter
    data_augm,       \* get_features_all_images: argument data_augm
    idx,             \* get_features_all_images: entries of the listing already iterated
    all_features,    \* get_features_all_images: the list all_features
    config,          \* YoloNet.config
    netout,          \* _decode_netout: argument netout
    boxes,           \* _decode_netout / predict: returned boxes
    stdout,          \* lines printed by _decode_netout
    image,           \* predict: argument image
    input_image,     \* predict: the array handed to self.model.predict
    y_true,          \* custom_loss: argument y_true
    y_pred,          \* custom_loss: argument y_pred
    loss             \* custom_loss: returned loss

vars == <<pc, feature_height, feature_width, img_arr, stride, padding, coordinates,
          features, frame, listing, ext_filter, data_augm, idx, all_features,
          config, netout, boxes, stdout, image, input_image, y_true, y_pred, loss>>

tilerVars == <<img_arr, coordinates, features, frame>>
corpusVars == <<listing, ext_filter, data_augm, idx, all_features>>
yoloVars == <<config, netout, boxes, stdout, image, input_image>>
lossVars == <<y_true, y_pred, loss>>

\* The value of a variable no call has set.
Unset == "unset"

(***************************************************************************)
(* Bounds of the model.                                                    *)
(***************************************************************************)
MaxImgDim == 10
MaxFeat == 6
MaxStride == 6

Min(a, b) == IF a < b THEN a ELSE b
Max(a, b) == IF a > b THEN a ELSE b

(***************************************************************************)
(* Input images: a pattern in which every position has its own non-zero    *)
(* intensity (seed 0), and the same pattern with zero pixels on every      *)
(* (seed+1)-th diagonal.  Intensities stay within uint8.                   *)
(***************************************************************************)
Pixel(seed, r, c) ==
    IF seed > 0 /\ (r + c) % (seed + 1) = 0 THEN 0 ELSE 1 + 16 * r + c

MkImage(h, w, seed) ==
    [h |-> h, w |-> w,
     px |-> [p \in (0 .. h - 1) \X (0 .. w - 1) |-> Pixel(seed, p[1], p[2])]]

(***************************************************************************)
(* Python and numpy primitives used by the source.                         *)
(***************************************************************************)
\* range(start, stop, step) for step >= 1, as the sequence it iterates.
PyRangeShort(start, stop, step) ==
    LET n == IF stop - 1 > start THEN (stop - 1 - start + step - 1) \div step ELSE 0
    IN  [i \in 1 .. n |-> start + (i - 1) * step]

PyRange(start, stop, step) ==
    LET n == IF stop > start THEN (stop - start + step - 1) \div step ELSE 0
    IN  [i \in 1 .. n |-> start + (i - 1) * step]

\* One axis of a basic slice a[start:stop] of an axis of length len: a negative
\* index counts from the end, and both ends are clamped to 0 .. len.
PySliceIndex(i, len) ==
    IF i < 0 THEN Max(i + len, 0) ELSE Min(i, len)

\* arr[y0:y1, x0:x1]
Slice2D(arr, y0, y1, x0, x1) ==
    LET ys == PySliceIndex(y0, arr.h)
        ye == Max(PySliceIndex(y1, arr.h), ys)
        xs == PySliceIndex(x0, arr.w)
        xe == Max(PySliceIndex(x1, arr.w), xs)
    IN  [h |-> ye - ys, w |-> xe - xs,
         px |-> [p \in (0 .. ye - ys - 1) \X (0 .. xe - xs - 1) |->
                    arr.px[<<ys + p[1], xs + p[2]>>]]]

\* arr.reshape(-1): the row-major flattening
Reshape1D(arr) ==
    [k \in 1 .. arr.h * arr.w |-> arr.px[<<(k - 1) \div arr.w, (k - 1) % arr.w>>]]

(***************************************************************************)
(* ImgReader.get_image_array_features                                      *)
(***************************************************************************)
\* "if stride > 5: padding = False"
EffectivePaddingLate(stride_, padding_) ==
    IF stride_ > 6 THEN FALSE ELSE padding_

EffectivePadding(stride_, padding_) ==
    IF stride_ > 5 THEN FALSE ELSE padding_

\* the two "too small" tests
TooSmallNoTolerance(img_height, img_width, fh, fw, pad) ==
    img_height < fh \/ img_width < fw

TooSmall(img_height, img_width, fh, fw, pad) ==
    IF ~pad
    THEN img_height < fh \/ img_width < fw
    ELSE img_height + 4 < fh \/ img_width + 4 < fw

\* padding_y / padding_x: the pixels added on one axis
PaddingAmountFullStride(img_dim, feature_dim, stride_) ==
    IF img_dim > feature_dim
    THEN stride_ - ((img_dim - feature_dim) % stride_)
    ELSE IF img_dim < feature_dim THEN feature_dim - img_dim ELSE 0

PaddingAmount(img_dim, feature_dim, stride_) ==
    IF img_dim > feature_dim
    THEN LET extra == (img_dim - feature_dim) % stride_
         IN  IF extra > 0 THEN stride_ - extra ELSE 0
    ELSE IF img_dim < feature_dim THEN feature_dim - img_dim ELSE 0

\* new_img: np.zeros((new_y, new_x)) with img_arr assigned at
\* [padding_top : padding_top+img_height, padding_left : padding_left+img_width]
PadImageAtOrigin(arr, padding_y, padding_x) ==
    LET new_y == arr.h + padding_y
        new_x == arr.w + padding_x
    IN  [padding_top |-> padding_y \div 2, padding_left |-> padding_x \div 2,
         img |-> [h |-> new_y, w |-> new_x,
                  px |-> [p \in (0 .. new_y - 1) \X (0 .. new_x - 1) |->
                             IF p[1] < arr.h /\ p[2] < arr.w
                             THEN arr.px[<<p[1], p[2]>>] ELSE 0]]]

PadImage(arr, padding_y, padding_x) ==
    IF padding_y > 0 \/ padding_x > 0
    THEN LET padding_top == padding_y \div 2
             padding_left == padding_x \div 2
             new_y == arr.h + padding_y
             new_x == arr.w + padding_x
         IN  [padding_top |-> padding_top, padding_left |-> padding_left,
              img |-> [h |-> new_y, w |-> new_x,
                       px |-> [p \in (0 .. new_y - 1) \X (0 .. new_x - 1) |->
                                  IF /\ padding_top <= p[1]
                                     /\ p[1] < padding_top + arr.h
                                     /\ padding_left <= p[2]
                                     /\ p[2] < padding_left + arr.w
                                  THEN arr.px[<<p[1] - padding_top, p[2] - padding_left>>]
                                  ELSE 0]]]
    ELSE [padding_top |-> 0, padding_left |-> 0, img |-> arr]

\* the window scan: "for y in range(...): for x in range(...)", as the sequence
\* of (y, x) pairs in the order the loops visit them
ScanOrderColumnMajor(img_height, img_width, fh, fw, stride_) ==
    LET ys == PyRange(0, img_height - fh + 1, stride_)
        xs == PyRange(0, img_width - fw + 1, stride_)
        nx == Len(xs)
        ny == Len(ys)
    IN  [k \in 1 .. ny * nx |-> <<ys[((k - 1) % ny) + 1], xs[((k - 1) \div ny) + 1]>>]

ScanOrder(img_height, img_width, fh, fw, stride_) ==
    LET ys == PyRange(0, img_height - fh + 1, stride_)
        xs == PyRange(0, img_width - fw + 1, stride_)
        nx == Len(xs)
    IN  [k \in 1 .. Len(ys) * nx |-> <<ys[((k - 1) \div nx) + 1], xs[((k - 1) % nx) + 1]>>]

\* The whole method, for stride >= 1: the returned lists and the final locals.
get_image_array_features(fh, fw, arr, stride_, padding_) ==
    LET pad == EffectivePadding(stride_, padding_)
    IN  IF TooSmall(arr.h, arr.w, fh, fw, pad)
        THEN [coordinates |-> <<>>, features |-> <<>>,
              frame |-> [padding |-> pad, returned |-> "too small",
                         padding_y |-> 0, padding_x |-> 0,
                         padding_top |-> 0, padding_left |-> 0,
                         img_height |-> arr.h, img_width |-> arr.w]]
        ELSE LET padding_y == IF pad THEN PaddingAmount(arr.h, fh, stride_) ELSE 0
                 padding_x == IF pad THEN PaddingAmount(arr.w, fw, stride_) ELSE 0
                 padded == IF pad THEN PadImage(arr, padding_y, padding_x)
                           ELSE [padding_top |-> 0, padding_left |-> 0, img |-> arr]
                 scan == ScanOrder(padded.img.h, padded.img.w, fh, fw, stride_)
             IN  [coordinates |->
                     [k \in 1 .. Len(scan) |->
                         <<scan[k][1] - padded.padding_top,
                           scan[k][2] - padded.padding_left>>],
                  features |->
                     [k \in 1 .. Len(scan) |->
                         Reshape1D(Slice2D(padded.img, scan[k][1], scan[k][1] + fh,
                                           scan[k][2], scan[k][2] + fw))],
                  frame |-> [padding |-> pad, returned |-> "scanned",
                             padding_y |-> padding_y, padding_x |-> padding_x,
                             padding_top |-> padded.padding_top,
                             padding_left |-> padded.padding_left,
                             img_height |-> padded.img.h, img_width |-> padded.img.w]]


(***************************************************************************)
(* Specification of one call of get_image_array_features.                  *)
(***************************************************************************)
InitTiler ==
    /\ pc = "call"
    /\ feature_height \in 4 .. MaxFeat
    /\ feature_width \in 4 .. MaxFeat
    /\ \E h \in 1 .. MaxImgDim, w \in 1 .. MaxImgDim, seed \in 0 .. 1 :
          img_arr = MkImage(h, w, seed)
    /\ stride \in 0 .. MaxStride
    /\ padding \in BOOLEAN
    /\ coordinates = Unset /\ features = Unset /\ frame = Unset
    /\ listing = Unset /\ ext_filter = Unset /\ data_augm = Unset
    /\ idx = Unset /\ all_features = Unset
    /\ config = Unset /\ netout = Unset /\ boxes = Unset /\ stdout = Unset
    /\ image = Unset /\ input_image = Unset
    /\ y_true = Unset /\ y_pred = Unset /\ loss = Unset

\* The call: "assert stride >= 1", then the method's body.
GetImageArrayFeatures ==
    /\ pc = "call"
    /\ IF stride >= 1
       THEN LET r == get_image_array_features(feature_height, feature_width,
                                              img_arr, stride, padding)
            IN  /\ coordinates' = r.coordinates
                /\ features' = r.features
                /\ frame' = r.frame
                /\ pc' = "done"
       ELSE /\ pc' = "raised"
            /\ UNCHANGED <<coordinates, features, frame>>
    /\ UNCHANGED <<feature_height, feature_width, img_arr, stride, padding>>
    /\ UNCHANGED <<corpusVars, yoloVars, lossVars>>

NextTiler == GetImageArrayFeatures

SpecTiler == InitTiler /\ [][NextTiler]_vars


(***************************************************************************)
(* Claims about get_image_array_features.                                  *)
(***************************************************************************)
\* The call has returned its two lists.
TilerDone == pc = "done"

\* The mode the call ran in: padding requested and not forced off.
PaddingMode == padding /\ stride <= 5

\* The element (r, c) of the window whose top-left corner is (y, x) in the
\* original image's coordinates, the image being embedded in zeros.
Embedded(arr, y, x, r, c) ==
    IF 0 <= y + r /\ y + r < arr.h /\ 0 <= x + c /\ x + c < arr.w
    THEN arr.px[<<y + r, x + c>>] ELSE 0

\* features[k] is the row-major flattening of the window at coordinates[k].
WindowAt(k) ==
    /\ DOMAIN features[k] = 1 .. feature_height * feature_width
    /\ \A r \in 0 .. feature_height - 1, c \in 0 .. feature_width - 1 :
          features[k][r * feature_width + c + 1] =
              Embedded(img_arr, coordinates[k][1], coordinates[k][2], r, c)

\* C1: with padding disabled and an image at least as large as the feature
\* window, the call returns (floor((h - fh)/s) + 1) * (floor((w - fw)/s) + 1)
\* windows, and the window returned with coordinate (y, x) is element for
\* element the row-major flattening of image[y : y+fh, x : x+fw].
C1_WindowCountAndContent ==
    (TilerDone /\ ~padding /\ img_arr.h >= feature_height
               /\ img_arr.w >= feature_width) =>
        /\ Len(features) = ((img_arr.h - feature_height) \div stride + 1)
                           * ((img_arr.w - feature_width) \div stride + 1)
        /\ Len(coordinates) = Len(features)
        /\ \A k \in 1 .. Len(features) :
              /\ 0 <= coordinates[k][1]
              /\ coordinates[k][1] + feature_height <= img_arr.h
              /\ 0 <= coordinates[k][2]
              /\ coordinates[k][2] + feature_width <= img_arr.w
              /\ WindowAt(k)

C1_Witness ==
    /\ TilerDone /\ ~padding /\ stride = 2
    /\ img_arr.h = 9 /\ img_arr.w = 8 /\ feature_height = 4 /\ feature_width = 5
    /\ Len(features) = 6
    /\ coordinates[6] = <<4, 2>>
    /\ features[6][1] = img_arr.px[<<4, 2>>]

\* The padding of one axis as the specification states it.
SpecPad(dim, fdim, s) ==
    IF dim > fdim THEN (s - ((dim - fdim) % s)) % s
    ELSE fdim - dim

\* The call returned early as "too small" in padding mode: no padded grid exists.
TooSmallPadded ==
    PaddingMode /\ (img_arr.h + 4 < feature_height \/ img_arr.w + 4 < feature_width)

SpecPadY == IF PaddingMode THEN SpecPad(img_arr.h, feature_height, stride) ELSE 0
SpecPadX == IF PaddingMode THEN SpecPad(img_arr.w, feature_width, stride) ELSE 0

\* The number of offsets i >= 0 with i*stride + fdim <= padded_dim.
SpecCount(padded_dim, fdim, s) ==
    Cardinality({i \in 0 .. padded_dim : i * s + fdim <= padded_dim})

\* C2: the coordinate list is exactly (i*stride - pad_top, j*stride - pad_left)
\* for i = 0..ny-1 (outer) and j = 0..nx-1 (inner), ny and nx bounded by
\* i*stride + fh <= padded_height and j*stride + fw <= padded_width; the k-th
\* feature vector is the window of the k-th coordinate; and a 10x10 image with
\* a 4x4 feature and stride 3 without padding gives (0,0),(0,3),...,(6,6).
C2_CoordinateSequence ==
    (TilerDone /\ ~TooSmallPadded) =>
        LET ny == SpecCount(img_arr.h + SpecPadY, feature_height, stride)
            nx == SpecCount(img_arr.w + SpecPadX, feature_width, stride)
        IN  /\ coordinates =
                  [k \in 1 .. ny * nx |->
                      <<((k - 1) \div nx) * stride - (SpecPadY \div 2),
                        ((k - 1) % nx) * stride - (SpecPadX \div 2)>>]
            /\ Len(features) = ny * nx
            /\ \A k \in 1 .. ny * nx : WindowAt(k)
            /\ (/\ img_arr.h = 10 /\ img_arr.w = 10 /\ feature_height = 4
                /\ feature_width = 4 /\ stride = 3 /\ ~padding) =>
                   coordinates = << <<0, 0>>, <<0, 3>>, <<0, 6>>,
                                    <<3, 0>>, <<3, 3>>, <<3, 6>>,
                                    <<6, 0>>, <<6, 3>>, <<6, 6>> >>

C2_Witness ==
    /\ TilerDone /\ ~padding /\ stride = 3
    /\ img_arr.h = 10 /\ img_arr.w = 10 /\ feature_height = 4 /\ feature_width = 4
    /\ Len(coordinates) = 9 /\ coordinates[6] = <<3, 6>>
    /\ features[6][1] = img_arr.px[<<3, 6>>]

\* C3: for every stride > 5, the call with padding=True returns the same
\* coordinates and features as the call with padding=False on the same image,
\* the empty result for an image smaller than the feature window included.
C3_LargeStrideForcesPaddingOff ==
    (TilerDone /\ stride > 5 /\ padding) =>
        LET r == get_image_array_features(feature_height, feature_width,
                                          img_arr, stride, FALSE)
        IN  /\ coordinates = r.coordinates
            /\ features = r.features
            /\ (img_arr.h < feature_height \/ img_arr.w < feature_width) =>
                   (coordinates = <<>> /\ features = <<>>)

C3_Witness ==
    /\ TilerDone /\ stride > 5 /\ padding
    /\ img_arr.h > feature_height
    /\ (img_arr.h - feature_height) % stride > 0
    /\ img_arr.w >= feature_width
    /\ Len(coordinates) >= 1

\* C4: in padding mode, for an image smaller than the feature window on an axis
\* by pad pixels (1 <= pad <= 4), every returned coordinate has the component
\* -floor(pad/2) on that axis, and every returned window is the original image
\* embedded in zeros: element (r, c) of the window with coordinate (y, x) is
\* image[y+r, x+c] inside the original image and 0 outside.
C4_SmallImageEmbeddedInZeros ==
    (TilerDone /\ PaddingMode /\ ~TooSmallPadded) =>
        /\ (img_arr.h < feature_height) =>
              \A k \in 1 .. Len(coordinates) :
                  coordinates[k][1] = -((feature_height - img_arr.h) \div 2)
        /\ (img_arr.w < feature_width) =>
              \A k \in 1 .. Len(coordinates) :
                  coordinates[k][2] = -((feature_width - img_arr.w) \div 2)
        /\ (img_arr.h < feature_height \/ img_arr.w < feature_width) =>
              /\ Len(features) = Len(coordinates)
              /\ Len(features) >= 1
              /\ \A k \in 1 .. Len(features) : WindowAt(k)

C4_Witness ==
    /\ TilerDone /\ PaddingMode
    /\ feature_height - img_arr.h = 3 /\ img_arr.w > feature_width
    /\ Len(coordinates) >= 2
    /\ coordinates[1][1] = -1
    /\ features[1][1] = 0
    /\ features[1][feature_width + 1] = img_arr.px[<<0, 0>>]
    /\ img_arr.px[<<0, 0>>] # 0

\* C5: the call returns two empty lists exactly when the image is too small:
\* without padding iff h < fh or w < fw, in padding mode iff h + 4 < fh or
\* w + 4 < fw; in every other case with stride >= 1 it returns a window.
C5_EmptyIffTooSmall ==
    (pc # "call" /\ stride >= 1) =>
        LET too_small ==
                IF PaddingMode
                THEN img_arr.h + 4 < feature_height \/ img_arr.w + 4 < feature_width
                ELSE img_arr.h < feature_height \/ img_arr.w < feature_width
        IN  /\ pc = "done"
            /\ too_small => (coordinates = <<>> /\ features = <<>>)
            /\ ~too_small => (Len(coordinates) >= 1 /\ Len(features) >= 1)

C5_Witness ==
    /\ TilerDone /\ PaddingMode
    /\ img_arr.h + 4 = feature_height /\ img_arr.w + 5 > feature_width
    /\ Len(features) >= 1

\* C10: in padding mode, for an image that is not too small, the padded grid
\* fits an integral number of stride-aligned windows on both axes: padded_dim >=
\* feature_dim and (padded_dim - feature_dim) mod s = 0, the last window ends at
\* the padded edge, and the padding added per axis is (s - ((dim - fdim) mod s))
\* mod s when dim > fdim, fdim - dim when dim < fdim, 0 when equal: at most 4.
C10_PaddedGridFitsWindows ==
    (TilerDone /\ PaddingMode /\ ~TooSmallPadded) =>
        /\ frame.img_height = img_arr.h + frame.padding_y
        /\ frame.img_width = img_arr.w + frame.padding_x
        /\ frame.img_height >= feature_height
        /\ frame.img_width >= feature_width
        /\ (frame.img_height - feature_height) % stride = 0
        /\ (frame.img_width - feature_width) % stride = 0
        /\ frame.padding_y = SpecPad(img_arr.h, feature_height, stride)
        /\ frame.padding_x = SpecPad(img_arr.w, feature_width, stride)
        /\ frame.padding_y \in 0 .. 4
        /\ frame.padding_x \in 0 .. 4
        /\ Len(coordinates) >= 1
        /\ LET last == coordinates[Len(coordinates)]
           IN  /\ last[1] + frame.padding_top + feature_height = frame.img_height
               /\ last[2] + frame.padding_left + feature_width = frame.img_width

C10_Witness ==
    /\ TilerDone /\ PaddingMode /\ stride = 5
    /\ img_arr.h = feature_height + 1 /\ frame.padding_y = 4
    /\ img_arr.w = feature_width + 5 /\ frame.padding_x = 0
    /\ Len(coordinates) = 4


(***************************************************************************)
(* ImgReader.get_features_all_images                                       *)
(*                                                                         *)
(* A file name is a sequence of characters.  A directory entry is a record *)
(* [name, isfile, decodes, content]: content is the grey-scale image that  *)
(* cv2.imread and cv2.cvtColor decode from the file; decodes is FALSE when *)
(* imread returns None (cvtColor then raises), and content is then unused. *)
(***************************************************************************)
MaxFiles == 2
MaxCorpusStride == 2

\* The content of an entry that is no image.
NoImage == MkImage(0, 0, 0)

UpperCase == <<"A", "B", "C", "D", "E", "F", "G", "H", "I", "J", "K", "L", "M",
               "N", "O", "P", "Q", "R", "S", "T", "U", "V", "W", "X", "Y", "Z">>
LowerCase == <<"a", "b", "c", "d", "e", "f", "g", "h", "i", "j", "k", "l", "m",
               "n", "o", "p", "q", "r", "s", "t", "u", "v", "w", "x", "y", "z">>

\* str.lower()
Lower(name) ==
    [i \in 1 .. Len(name) |->
        IF \E j \in 1 .. 26 : UpperCase[j] = name[i]
        THEN LowerCase[CHOOSE j \in 1 .. 26 : UpperCase[j] = name[i]]
        ELSE name[i]]

\* str.endswith(tuple): the name ends with one of the suffixes
EndsWith(name, suffixes) ==
    \E i \in 1 .. Len(suffixes) :
        /\ Len(suffixes[i]) <= Len(name)
        /\ SubSeq(name, Len(name) - Len(suffixes[i]) + 1, Len(name)) = suffixes[i]

\* "os.path.isfile(full_path_name) and img_file.lower().endswith(tuple(ext_filter))"
QualifiesCaseSensitive(entry, filter) ==
    entry.isfile /\ EndsWith(entry.name, filter)

Qualifies(entry, filter) ==
    entry.isfile /\ EndsWith(Lower(entry.name), filter)

\* cv2.warpAffine(img_arr, cv2.getRotationMatrix2D((cols/2, rows/2), angle, 1),
\* (cols, rows)), an external call: the result has the source's shape and is
\* filled with zeros where no source pixel lands.  The rotation itself is
\* abstracted to a displacement by one column in the direction of the angle's
\* sign, which keeps the two rotated copies distinct from each other and from
\* the source.
WarpAffine(arr, angle) ==
    LET d == IF angle < 0 THEN 1 ELSE -1
    IN  [h |-> arr.h, w |-> arr.w,
         px |-> [p \in (0 .. arr.h - 1) \X (0 .. arr.w - 1) |->
                    IF 0 <= p[2] - d /\ p[2] - d < arr.w
                    THEN arr.px[<<p[1], p[2] - d>>] ELSE 0]]

\* "if len(features) > 0: all_features.extend(features)"
ExtendIfAny(list, feats) ==
    IF Len(feats) > 0 THEN list \o feats ELSE list

\* The body of the loop for one qualifying, decodable file: all_features after it.
ProcessImageRightFirst(list, fh, fw, arr, stride_, padding_, augm) ==
    LET own == ExtendIfAny(list,
                   get_image_array_features(fh, fw, arr, stride_, padding_).features)
    IN  IF augm
        THEN LET right_arr == WarpAffine(arr, 25)
                 with_right == ExtendIfAny(own,
                     get_image_array_features(fh, fw, right_arr, stride_, padding_).features)
                 left_arr == WarpAffine(arr, -25)
             IN  ExtendIfAny(with_right,
                     get_image_array_features(fh, fw, left_arr, stride_, padding_).features)
        ELSE own

ProcessImage(list, fh, fw, arr, stride_, padding_, augm) ==
    LET own == ExtendIfAny(list,
                   get_image_array_features(fh, fw, arr, stride_, padding_).features)
    IN  IF augm
        THEN LET left_arr == WarpAffine(arr, -25)
                 with_left == ExtendIfAny(own,
                     get_image_array_features(fh, fw, left_arr, stride_, padding_).features)
                 right_arr == WarpAffine(arr, 25)
             IN  ExtendIfAny(with_left,
                     get_image_array_features(fh, fw, right_arr, stride_, padding_).features)
        ELSE own

\* The directory entries the listings are drawn from.
CorpusImages == {MkImage(1, 1, 0), MkImage(2, 3, 1), MkImage(3, 4, 0)}

DirEntries ==
    {[name |-> <<"a", ".", "j", "p", "g">>, isfile |-> TRUE, decodes |-> TRUE,
      content |-> i] :
        i \in CorpusImages}
    \cup {[name |-> <<"b", ".", "P", "N", "G">>, isfile |-> TRUE,
           decodes |-> TRUE, content |-> MkImage(3, 4, 1)],
          [name |-> <<"c", ".", "t", "x", "t">>, isfile |-> TRUE,
           decodes |-> FALSE, content |-> NoImage],
          [name |-> <<"d", ".", "j", "p", "g">>, isfile |-> FALSE,
           decodes |-> FALSE, content |-> NoImage],
          [name |-> <<"e", ".", "p", "n", "g">>, isfile |-> TRUE,
           decodes |-> FALSE, content |-> NoImage]}

ExtFilters ==
    {<< <<".", "j", "p", "g">>, <<".", "p", "n", "g">> >>,
     << <<".", "j", "p", "g">> >>,
     << <<".", "P", "N", "G">> >>}

InitCorpus ==
    /\ pc = "loop"
    /\ \E f \in {2, 6} : feature_height = f /\ feature_width = f
    /\ stride \in 1 .. MaxCorpusStride
    /\ padding \in BOOLEAN
    /\ listing \in UNION {[1 .. n -> DirEntries] : n \in 0 .. MaxFiles}
    /\ ext_filter \in ExtFilters
    /\ data_augm \in BOOLEAN
    /\ idx = 0
    /\ all_features = <<>>
    /\ img_arr = Unset /\ coordinates = Unset /\ features = Unset /\ frame = Unset
    /\ config = Unset /\ netout = Unset /\ boxes = Unset /\ stdout = Unset
    /\ image = Unset /\ input_image = Unset
    /\ y_true = Unset /\ y_pred = Unset /\ loss = Unset

\* One iteration of "for img_file in os.listdir(img_dir)".
ProcessEntry ==
    /\ pc = "loop"
    /\ idx < Len(listing)
    /\ LET entry == listing[idx + 1]
       IN  IF ~Qualifies(entry, ext_filter)
           THEN /\ idx' = idx + 1
                /\ UNCHANGED <<pc, all_features>>
           ELSE IF ~entry.decodes
           THEN /\ pc' = "raised"
                /\ UNCHANGED <<idx, all_features>>
           ELSE /\ all_features' = ProcessImage(all_features, feature_height,
                                                feature_width, entry.content,
                                                stride, padding, data_augm)
                /\ idx' = idx + 1
                /\ UNCHANGED pc
    /\ UNCHANGED <<feature_height, feature_width, stride, padding,
                   listing, ext_filter, data_augm>>
    /\ UNCHANGED <<tilerVars, yoloVars, lossVars>>

\* "return all_features" once the listing is exhausted.
ReturnAllFeatures ==
    /\ pc = "loop"
    /\ idx = Len(listing)
    /\ pc' = "done"
    /\ UNCHANGED <<feature_height, feature_width, stride, padding>>
    /\ UNCHANGED <<tilerVars, corpusVars, yoloVars, lossVars>>

NextCorpus == ProcessEntry \/ ReturnAllFeatures

SpecCorpus == InitCorpus /\ [][NextCorpus]_vars

(***************************************************************************)
(* Claim about get_features_all_images.                                    *)
(***************************************************************************)
\* The feature vectors the Tiler returns for one grid, in window scan order.
TilerBlock(arr) ==
    get_image_array_features(feature_height, feature_width, arr, stride, padding).features

\* The block sequence of one directory entry: nothing for an entry that is not
\* a regular file or whose lower-cased name carries no extension of the filter;
\* else the original grid's block, then (under data_augm) the -25 degree copy's
\* and the +25 degree copy's.
EntryBlocks(entry) ==
    IF ~entry.isfile \/ ~EndsWith(Lower(entry.name), ext_filter) THEN <<>>
    ELSE TilerBlock(entry.content)
         \o (IF data_augm
             THEN TilerBlock(WarpAffine(entry.content, -25))
                  \o TilerBlock(WarpAffine(entry.content, 25))
             ELSE <<>>)

RECURSIVE CorpusOf(_)
CorpusOf(n) ==
    IF n = 0 THEN <<>> ELSE CorpusOf(n - 1) \o EntryBlocks(listing[n])

MaxCells == 4
MaxSkip == 2

Unit == 10 ^ 8
\* the logit 10^-8
Tiny == Unit \div 10 ^ 8

\* YoloNet.sigmoid: 1. / (1. + np.exp(-x)), rounded to the nearest 10^-8, on
\* the logits the model draws.
sigmoid(x) ==
    CASE x = -2 * Unit -> 11920292
      [] x = -Unit     -> 26894142
      [] x = 0         -> 50000000
      [] x = Tiny      -> 50000000
      [] x = Unit      -> 73105858
      [] x = 2 * Unit  -> 88079708

\* "if confidence > 0.5": the cell emits a box
EmitsBoxDebugThreshold(confidence, debug) ==
    IF debug THEN confidence > Unit \div 10 ELSE confidence > Unit \div 2

EmitsBox(confidence, debug) ==
    confidence > Unit \div 2

\* The body of the two loops for one cell: the box it computes, its confidence,
\* what it prints and whether it appends the box.
DecodeCell(cfg, net, row, col) ==
    LET raw == net.cell[<<row, col>>]
        x == ((col * Unit + sigmoid(raw[1])) * cfg.grid_x_size)
             + cfg.image_left_skip * Unit
        y == (row * Unit + sigmoid(raw[2])) * cfg.grid_y_size
        w == raw[3] * cfg.grid_x_size
        h == raw[4] * cfg.grid_y_size
        confidence == sigmoid(raw[5])
    IN  [box |-> [cx |-> x, cy |-> y, w |-> w, h |-> h],
         printed |-> IF cfg.debug /\ confidence > Unit \div 10
                     THEN <<<<x, y, w, h, confidence>>>> ELSE <<>>,
         boxes |-> IF EmitsBox(confidence, cfg.debug)
                   THEN <<[cx |-> x, cy |-> y, w |-> w, h |-> h]>> ELSE <<>>]

\* "for col in range(grid_w)" from column col on, within one row
RECURSIVE DecodeCols(_, _, _, _)
DecodeCols(cfg, net, row, col) ==
    IF col >= net.grid_w THEN [boxes |-> <<>>, printed |-> <<>>]
    ELSE LET this == DecodeCell(cfg, net, row, col)
             rest == DecodeCols(cfg, net, row, col + 1)
         IN  [boxes |-> this.boxes \o rest.boxes,
              printed |-> this.printed \o rest.printed]

\* "for row in range(grid_h)" from row row on
RECURSIVE DecodeRows(_, _, _)
DecodeRows(cfg, net, row) ==
    IF row >= net.grid_h THEN [boxes |-> <<>>, printed |-> <<>>]
    ELSE LET this == DecodeCols(cfg, net, row, 0)
             rest == DecodeRows(cfg, net, row + 1)
         IN  [boxes |-> this.boxes \o rest.boxes,
              printed |-> this.printed \o rest.printed]

decode_netout(cfg, net) == DecodeRows(cfg, net, 0)

\* The logits drawn for the confidence channel, and the grids drawn: every
\* assignment of them to the cells, the other four channels set by position.
ConfLogits == {-Unit, 0, Tiny, Unit}

PositionLogit(n) ==
    CASE n % 4 = 0 -> 0 [] n % 4 = 1 -> Unit [] n % 4 = 2 -> -Unit [] OTHER -> 2 * Unit

MkNetout(gh, gw, conf) ==
    [grid_h |-> gh, grid_w |-> gw,
     cell |-> [p \in (0 .. gh - 1) \X (0 .. gw - 1) |->
                  <<PositionLogit(p[1] + p[2]), PositionLogit(2 * p[1] + p[2] + 1),
                    Unit + p[2] * (Unit \div 2), (Unit \div 2) + p[1] * Unit,
                    conf[p]>>]]

GridShapes == {s \in (1 .. MaxCells) \X (1 .. MaxCells) : s[1] * s[2] <= MaxCells}

Netouts ==
    UNION {{MkNetout(s[1], s[2], conf) :
               conf \in [(0 .. s[1] - 1) \X (0 .. s[2] - 1) -> ConfLogits]} :
           s \in GridShapes}

\* The cell sizes drawn: <<grid_x_size, grid_y_size>>
CellSizes == {<<2, 3>>, <<3, 1>>}

InitDecode ==
    /\ pc = "call"
    /\ \E size \in CellSizes, left \in 0 .. MaxSkip, debug \in BOOLEAN :
          config = [grid_x_size |-> size[1], grid_y_size |-> size[2],
                    image_left_skip |-> left, image_right_skip |-> 1,
                    image_width |-> 4, debug |-> debug]
    /\ netout \in Netouts
    /\ boxes = Unset /\ stdout = <<>>
    /\ image = Unset /\ input_image = Unset
    /\ feature_height = Unset /\ feature_width = Unset
    /\ stride = Unset /\ padding = Unset
    /\ img_arr = Unset /\ coordinates = Unset /\ features = Unset /\ frame = Unset
    /\ listing = Unset /\ ext_filter = Unset /\ data_augm = Unset
    /\ idx = Unset /\ all_features = Unset
    /\ y_true = Unset /\ y_pred = Unset /\ loss = Unset

DecodeNetout ==
    /\ pc = "call"
    /\ LET r == decode_netout(config, netout)
       IN  /\ boxes' = r.boxes
           /\ stdout' = stdout \o r.printed
    /\ pc' = "done"
    /\ UNCHANGED <<config, netout, image, input_image>>
    /\ UNCHANGED <<feature_height, feature_width, stride, padding>>
    /\ UNCHANGED <<tilerVars, corpusVars, lossVars>>

NextDecode == DecodeNetout

SpecDecode == InitDecode /\ [][NextDecode]_vars

(***************************************************************************)
(* Claim about _decode_netout.                                             *)
(***************************************************************************)
\* The cells in row-major order, as <<row, col>> pairs.
RowMajorCells ==
    [k \in 1 .. netout.grid_h * netout.grid_w |->
        <<(k - 1) \div netout.grid_w, (k - 1) % netout.grid_w>>]

\* The box the documented formulas give for cell p.
SpecBox(p) ==
    LET raw == netout.cell[p]
    IN  [cx |-> (p[2] * Unit + sigmoid(raw[1])) * config.grid_x_size
                + config.image_left_skip * Unit,
         cy |-> (p[1] * Unit + sigmoid(raw[2])) * config.grid_y_size,
         w |-> raw[3] * config.grid_x_size,
         h |-> raw[4] * config.grid_y_size]

ConfidentCells ==
    LET Confident(p) == sigmoid(netout.cell[p][5]) > Unit \div 2
    IN  SelectSeq(RowMajorCells, Confident)

PositiveLogitCells ==
    LET Positive(p) == netout.cell[p][5] > 0
    IN  SelectSeq(RowMajorCells, Positive)

BoxesOf(cells) == [k \in 1 .. Len(cells) |-> SpecBox(cells[k])]

\* C6 as stated: one box for every cell whose confidence sigmoid(raw[4]) is
\* > 0.5, equivalently raw[4] > 0, and none for any other cell, in row-major
\* order with the documented cx, cy, w, h, whatever config['debug'] is.
C6_Original ==
    (pc = "done") =>
        /\ boxes = BoxesOf(ConfidentCells)
        /\ boxes = BoxesOf(PositiveLogitCells)

\* C6 as amended: one box for every cell whose computed confidence
\* sigmoid(raw[4]) is > 0.5 and none for any other cell, in row-major order
\* with the documented cx, cy, w, h, whatever config['debug'] is; a cell that
\* emits a box has raw[4] > 0, and a cell with raw[4] <= 0 emits none, but a
\* positive logit whose sigmoid rounds to exactly 0.5 emits no box.
C6_BoxPerConfidentCell ==
    (pc = "done") =>
        /\ boxes = BoxesOf(ConfidentCells)
        /\ boxes = decode_netout([config EXCEPT !.debug = ~config.debug], netout).boxes
        /\ \A k \in 1 .. Len(ConfidentCells) :
              netout.cell[ConfidentCells[k]][5] > 0
        /\ Len(boxes) <= Len(PositiveLogitCells)

C6_Witness ==
    /\ pc = "done" /\ config.debug
    /\ netout.grid_h = 2 /\ netout.grid_w = 2
    /\ netout.cell[<<0, 0>>][5] = Tiny
    /\ netout.cell[<<0, 1>>][5] = Unit
    /\ netout.cell[<<1, 0>>][5] = Unit
    /\ netout.cell[<<1, 1>>][5] = -Unit
    /\ Len(boxes) = 2
    /\ boxes[1] = SpecBox(<<0, 1>>)
    /\ Len(stdout) = 4


(***************************************************************************)
(* YoloNet.predict                                                         *)
(*                                                                         *)
(* A colour image is a record [h, w, px] whose pixels are <<b, g, r>>      *)
(* triples.  The network (self.model, built for config['image_width']      *)
(* columns) is external: it returns some grid tensor, and may raise when   *)
(* the array it is handed has another width.                               *)
(***************************************************************************)
MaxWidth == 5

\* YoloNet.normalize: image / 255., the quotient kept as a fraction
normalize(v) == [num |-> v, den |-> 255]

\* normalize(image[:, left_skip : -right_skip, ::-1])
CropAndNormalize(img, left_skip, right_skip) ==
    LET xs == PySliceIndex(left_skip, img.w)
        xe == Max(PySliceIndex(0 - right_skip, img.w), xs)
    IN  [h |-> img.h, w |-> xe - xs,
         px |-> [p \in (0 .. img.h - 1) \X (0 .. xe - xs - 1) |->
                    LET bgr == img.px[<<p[1], xs + p[2]>>]
                    IN  <<normalize(bgr[3]), normalize(bgr[2]), normalize(bgr[1])>>]]

MkColourImage(h, w) ==
    [h |-> h, w |-> w,
     px |-> [p \in (0 .. h - 1) \X (0 .. w - 1) |->
                <<Pixel(0, p[1], p[2]), Pixel(1, p[1], p[2]), 200 + p[2]>>]]

\* The grids the external network is taken to return.
PredictNetouts ==
    {MkNetout(1, 2, [p \in (0 .. 0) \X (0 .. 1) |-> IF p[2] = c THEN Unit ELSE -Unit]) :
        c \in 0 .. 2}

InitPredict ==
    /\ pc = "call"
    /\ \E h \in 1 .. 2, w \in 1 .. MaxWidth : image = MkColourImage(h, w)
    /\ \E left \in 0 .. MaxSkip, right \in 0 .. MaxSkip, debug \in BOOLEAN :
          config = [grid_x_size |-> 2, grid_y_size |-> 3,
                    image_left_skip |-> left, image_right_skip |-> right,
                    image_width |-> Max(image.w - left - right, 1), debug |-> debug]
    /\ netout = Unset /\ boxes = Unset /\ stdout = <<>> /\ input_image = Unset
    /\ feature_height = Unset /\ feature_width = Unset
    /\ stride = Unset /\ padding = Unset
    /\ img_arr = Unset /\ coordinates = Unset /\ features = Unset /\ frame = Unset
    /\ listing = Unset /\ ext_filter = Unset /\ data_augm = Unset
    /\ idx = Unset /\ all_features = Unset
    /\ y_true = Unset /\ y_pred = Unset /\ loss = Unset

\* predict(image): crop, reverse the channels, normalise, run the network and
\* decode what it returns.
Predict ==
    /\ pc = "call"
    /\ input_image' = CropAndNormalize(image, config.image_left_skip,
                                       config.image_right_skip)
    /\ \/ \E out \in PredictNetouts :
             LET r == decode_netout(config, out)
             IN  /\ netout' = out
                 /\ boxes' = r.boxes
                 /\ stdout' = stdout \o r.printed
                 /\ pc' = "done"
       \/ /\ input_image'.w # config.image_width
          /\ pc' = "raised"
          /\ UNCHANGED <<netout, boxes, stdout>>
    /\ UNCHANGED <<config, image>>
    /\ UNCHANGED <<feature_height, feature_width, stride, padding>>
    /\ UNCHANGED <<tilerVars, corpusVars, lossVars>>

NextPredict == Predict

SpecPredict == InitPredict /\ [][NextPredict]_vars

(***************************************************************************)
(* Claim about predict.                                                    *)
(***************************************************************************)
\* C7: for every image_left_skip >= 0 and image_right_skip >= 0 with
\* image_left_skip + image_right_skip < width, the array handed to the model
\* has exactly width - image_left_skip - image_right_skip columns, namely the
\* columns image_left_skip .. width - image_right_skip - 1 of the input
\* (image_right_skip = 0, where no column is removed on the right, included).
C7_CropKeepsMiddleColumns ==
    (/\ pc # "call"
     /\ config.image_left_skip + config.image_right_skip < image.w) =>
        /\ input_image.h = image.h
        /\ input_image.w = image.w - config.image_left_skip - config.image_right_skip
        /\ \A r \in 0 .. image.h - 1, c \in 0 .. input_image.w - 1 :
              LET bgr == image.px[<<r, config.image_left_skip + c>>]
              IN  input_image.px[<<r, c>>] =
                      <<normalize(bgr[3]), normalize(bgr[2]), normalize(bgr[1])>>

(***************************************************************************)
(* YoloNet.custom_loss                                                     *)
(*                                                                         *)
(* A tensor is the sequence of its cells (batch and grid flattened, as     *)
(* reduce_sum sees them), a cell the tuple of its five channels.  Reals    *)
(* are fixed-point integers in units of 1/100; the loss is in units of     *)
(* 10^-7 so that the weights 1.0 and 1.2 stay integral.                    *)
(***************************************************************************)
MaxLossCells == 2

\* tf.sigmoid, rounded to the nearest 1/100, on the logits the model draws
tf_sigmoid(x) ==
    CASE x = -200 -> 12
      [] x = -100 -> 27
      [] x = 0    -> 50
      [] x = 100  -> 73
      [] x = 200  -> 88

Square(v) == v * v

RECURSIVE ReduceSum(_)
ReduceSum(seq) ==
    IF seq = <<>> THEN 0 ELSE Head(seq) + ReduceSum(Tail(seq))

\* "tf.square(true_box_xy - pred_box_xy) * true_mask" and the same for wh: the
\* mask scales the two position and the two size errors of each cell
MaskedErrorUnmasked(true_v, pred_v, mask) == Square(true_v - pred_v) * 100

MaskedError(true_v, pred_v, mask) == Square(true_v - pred_v) * mask

\* "tf.square(true_box_conf - pred_box_conf)"
ConfErrorMasked(true_conf, pred_conf) == Square(true_conf - pred_conf) * (true_conf \div 100)

ConfError(true_conf, pred_conf) == Square(true_conf - pred_conf)

custom_loss(yt, yp) ==
    LET n == Len(yt)
        loss_xy == ReduceSum([k \in 1 .. n |->
                       MaskedError(yt[k][1], tf_sigmoid(yp[k][1]), yt[k][5])
                       + MaskedError(yt[k][2], tf_sigmoid(yp[k][2]), yt[k][5])]) * 10
        loss_wh == ReduceSum([k \in 1 .. n |->
                       MaskedError(yt[k][3], yp[k][3], yt[k][5])
                       + MaskedError(yt[k][4], yp[k][4], yt[k][5])]) * 10
        loss_conf == ReduceSum([k \in 1 .. n |->
                         ConfError(yt[k][5], tf_sigmoid(yp[k][5]))]) * 100 * 12
    IN  loss_xy + loss_wh + loss_conf

\* The cells drawn: ground truth without an object (all zero, or with stale
\* position and size values) and with one; predictions.
TrueCells == {<<0, 0, 0, 0, 0>>, <<50, 25, 100, 200, 0>>, <<50, 75, 200, 100, 100>>}
PredCells == {<<0, 0, 0, 0, 0>>, <<100, -100, 200, 100, 200>>,
              <<-200, 100, 50, 300, -100>>}

InitLoss ==
    /\ pc = "call"
    /\ \E n \in 1 .. MaxLossCells :
          /\ y_true \in [1 .. n -> TrueCells]
          /\ y_pred \in [1 .. n -> PredCells]
    /\ loss = Unset
    /\ config = Unset /\ netout = Unset /\ boxes = Unset /\ stdout = Unset
    /\ image = Unset /\ input_image = Unset
    /\ feature_height = Unset /\ feature_width = Unset
    /\ stride = Unset /\ padding = Unset
    /\ img_arr = Unset /\ coordinates = Unset /\ features = Unset /\ frame = Unset
    /\ listing = Unset /\ ext_filter = Unset /\ data_augm = Unset
    /\ idx = Unset /\ all_features = Unset

CustomLoss ==
    /\ pc = "call"
    /\ loss' = custom_loss(y_true, y_pred)
    /\ pc' = "done"
    /\ UNCHANGED <<y_true, y_pred>>
    /\ UNCHANGED <<feature_height, feature_width, stride, padding>>
    /\ UNCHANGED <<tilerVars, corpusVars, yoloVars>>

NextLoss == CustomLoss

SpecLoss == InitLoss /\ [][NextLoss]_vars

(***************************************************************************)
(* Claim about custom_loss.                                                *)
(***************************************************************************)
\* What one cell adds to the loss according to the claim: its confidence error
\* with weight 1.2, and its position and size errors scaled by the mask only
\* when its ground-truth channel 4 is not 0.
SpecCellLoss(t, q) ==
    12 * 100 * Square(t[5] - tf_sigmoid(q[5]))
    + (IF t[5] = 0 THEN 0
       ELSE 10 * t[5] * (Square(t[1] - tf_sigmoid(q[1])) + Square(t[2] - tf_sigmoid(q[2]))
                         + Square(t[3] - q[3]) + Square(t[4] - q[4])))

RECURSIVE SpecLossUpTo(_)
SpecLossUpTo(n) ==
    IF n = 0 THEN 0 ELSE SpecLossUpTo(n - 1) + SpecCellLoss(y_true[n], y_pred[n])

RECURSIVE SumSigmoidConfSquared(_)
SumSigmoidConfSquared(n) ==
    IF n = 0 THEN 0
    ELSE SumSigmoidConfSquared(n - 1) + Square(tf_sigmoid(y_pred[n][5]))

\* C8: a cell whose ground-truth channel 4 is 0 contributes nothing to the xy
\* and wh sums whatever its predicted values, its confidence error always
\* counts with weight 1.2, and for y_true all zeros the loss is
\* 1.2 * sum over all cells of sigmoid(pred_conf)^2.
C8_LossMasksPositionAndSizeOnly ==
    (pc = "done") =>
        /\ loss = SpecLossUpTo(Len(y_true))
        /\ (\A k \in 1 .. Len(y_true) : y_true[k] = <<0, 0, 0, 0, 0>>) =>
               loss = 12 * 100 * SumSigmoidConfSquared(Len(y_pred))

C8_Witness ==
    /\ pc = "done" /\ Len(y_true) = 2
    /\ \A k \in 1 .. 2 : y_true[k] = <<0, 0, 0, 0, 0>>
    /\ y_pred[1] = <<100, -100, 200, 100, 200>>
    /\ y_pred[2] = <<-200, 100, 50, 300, -100>>
    /\ loss = 12 * 100 * (88 * 88 + 27 * 27)

=============================================================================
